---- MODULE Spec2Model ----
(***************************************************************************)
(* A model of imagor's request orchestration (src/imagor.go): the loader   *)
(* chain run as the producing function of the result cache, the processor  *)
(* chain of Do, the response ServeHTTP writes, the detached save tasks,    *)
(* the callers that share one in-flight load per image, the processors'    *)
(* startup and shutdown, and the CIDR list flag (src/config/flags.go).     *)
(*                                                                         *)
(* Seven specifications share the module:                                  *)
(*   SpecLoad       one execution of the producing function of             *)
(*                  Imagor.load, one loader call per step;                 *)
(*   SpecDo         one call of Imagor.ServeHTTP and of the Imagor.Do it   *)
(*                  makes, one collaborator call per step;                 *)
(*   SpecServe      the response ServeHTTP writes, over every result of    *)
(*                  Do's result types;                                     *)
(*   Spec           several callers of Imagor.load over the shared cache,  *)
(*                  with time, cancellation and eviction;                  *)
(*   SpecSave       the goroutines one call of Imagor.save starts, beside  *)
(*                  the request that caused it;                            *)
(*   SpecLifecycle  Imagor.Startup followed by Imagor.Shutdown;            *)
(*   SpecFlag       calls of CIDRSliceFlag.Set.                            *)
(***************************************************************************)
EXTENDS Integers, Sequences, FiniteSets, TLC

\* ------------------------------------------------------------------ bounds
MaxLoaders == 2
MaxProcessors == 2
MaxStorages == 2
NCallers == 2
MaxExecs == 2
MaxValueLen == 3
AddrBits == 2

\* ------------------------------------------------------------------ values
\* A byte buffer is a sequence of bytes; <<>> is the nil or empty buffer.
NilBuf == <<>>
Buffers == {NilBuf, <<1>>, <<2>>}

\* error values.  ErrNil is Go's nil error.
ErrNil == "nil"
ErrPass == "ErrPass"
ErrNotFound == "ErrNotFound"
ErrHashMismatch == "ErrHashMismatch"
ErrInternal == "ErrInternal"
ErrTimeout == "ErrTimeout"
\* errors that are not imagor.Error values
ErrCanceled == "context.Canceled"
ErrDeadline == "context.DeadlineExceeded"
ErrIO == "io error"

\* WrapError: an imagor.Error is returned as it is, nil stays nil, a deadline
\* becomes the timeout error and any other error becomes an internal error.
WrapError(e) ==
  CASE e = ErrNil -> ErrNil
    [] e \in {ErrPass, ErrNotFound, ErrHashMismatch, ErrInternal, ErrTimeout} -> e
    [] e = ErrDeadline -> ErrTimeout
    [] OTHER -> ErrInternal

\* errors.Is(err, context.Canceled)
IsCanceled(e) == e = ErrCanceled

\* ------------------------------------------------------- the loader chain
\* What one Loader.Load may return: any bytes with any error.
LoaderErrs == {ErrNil, ErrPass, ErrNotFound, ErrCanceled, ErrDeadline, ErrIO}
LoaderResults == [buf : Buffers, err : LoaderErrs]

LogEntry(level, at, e) == [level |-> level, at |-> at, err |-> e]

\* The state of the producing function when it is entered: the named results
\* buf and err hold their zero values.
ProduceInit == [buf |-> NilBuf, err |-> ErrNil, brk |-> FALSE, log |-> <<>>]

\* The log statement of the loop body for a loader that returned error e.
LoaderLog(e, debug) ==
  IF e # ErrNil /\ e # ErrPass /\ e # ErrNotFound /\ ~IsCanceled(e)
  THEN <<LogEntry("error", "loader", e)>>
  ELSE IF debug THEN <<LogEntry("debug", "loader", e)>> ELSE <<>>

\* LoaderStep without the break on a nil error.
LoaderStepMutNoBreak(st, r, debug) ==
  LET buf1 == IF Len(r.buf) > 0 THEN r.buf ELSE st.buf
  IN  IF r.err = ErrNil
      THEN [st EXCEPT !.buf = buf1, !.err = ErrNil]
      ELSE [st EXCEPT !.buf = buf1, !.err = r.err,
                      !.log = st.log \o LoaderLog(r.err, debug)]

\* One iteration of the loop over app.Loaders, for a loader returning r.
LoaderStep(st, r, debug) ==
  LET buf1 == IF Len(r.buf) > 0 THEN r.buf ELSE st.buf
  IN  IF r.err = ErrNil
      THEN [st EXCEPT !.buf = buf1, !.err = ErrNil, !.brk = TRUE]
      ELSE [st EXCEPT !.buf = buf1, !.err = r.err,
                      !.log = st.log \o LoaderLog(r.err, debug)]

\* The goroutines app.save starts: one per storage, in the order of the
\* slice, each named by the index of its storage.
Save(nStorages) == [s \in 1..nStorages |-> s]

\* ProduceEnd calling app.save whether the chain succeeded or not.
ProduceEndMutSaveOnError(st, nStorages, debug) ==
  IF st.err = ErrNil
  THEN [buf |-> st.buf, err |-> ErrNil,
        log |-> st.log \o (IF debug THEN <<LogEntry("debug", "loaded", ErrNil)>> ELSE <<>>),
        saves |-> IF nStorages > 0 THEN Save(nStorages) ELSE <<>>]
  ELSE IF ~IsCanceled(st.err)
  THEN LET e == IF st.err = ErrPass THEN ErrNotFound ELSE st.err
       IN  [buf |-> st.buf, err |-> e,
            log |-> st.log \o <<LogEntry("error", "final", e)>>,
            saves |-> Save(nStorages)]
  ELSE [buf |-> st.buf, err |-> st.err, log |-> st.log, saves |-> Save(nStorages)]

\* ProduceEnd without the conversion of a trailing Pass to NotFound.
ProduceEndMutKeepPass(st, nStorages, debug) ==
  IF st.err = ErrNil
  THEN [buf |-> st.buf, err |-> ErrNil,
        log |-> st.log \o (IF debug THEN <<LogEntry("debug", "loaded", ErrNil)>> ELSE <<>>),
        saves |-> IF nStorages > 0 THEN Save(nStorages) ELSE <<>>]
  ELSE IF ~IsCanceled(st.err)
  THEN [buf |-> st.buf, err |-> st.err,
        log |-> st.log \o <<LogEntry("error", "final", st.err)>>,
        saves |-> <<>>]
  ELSE [buf |-> st.buf, err |-> st.err, log |-> st.log, saves |-> <<>>]

\* The tail of the producing function, after the loop: what it returns, what
\* it logs and the save goroutines it starts (one per storage, in order).
ProduceEnd(st, nStorages, debug) ==
  IF st.err = ErrNil
  THEN [buf |-> st.buf, err |-> ErrNil,
        log |-> st.log \o (IF debug THEN <<LogEntry("debug", "loaded", ErrNil)>> ELSE <<>>),
        saves |-> IF nStorages > 0 THEN Save(nStorages) ELSE <<>>]
  ELSE IF ~IsCanceled(st.err)
  THEN LET e == IF st.err = ErrPass THEN ErrNotFound ELSE st.err
       IN  [buf |-> st.buf, err |-> e,
            log |-> st.log \o <<LogEntry("error", "final", e)>>,
            saves |-> <<>>]
  ELSE [buf |-> st.buf, err |-> st.err, log |-> st.log, saves |-> <<>>]

\* What load returns for the outcome res handed back by the cache.
LoadReturn(res) == [buf |-> res.buf, err |-> WrapError(res.err)]

\* The producing function run over the loader results rs, in one piece.
RECURSIVE ProduceLoop(_, _, _)
ProduceLoop(st, rs, debug) ==
  IF rs = <<>> \/ st.brk THEN st
  ELSE ProduceLoop(LoaderStep(st, Head(rs), debug), Tail(rs), debug)

Produce(rs, nStorages, debug) ==
  ProduceEnd(ProduceLoop(ProduceInit, rs, debug), nStorages, debug)

\* ---------------------------------------------------- the processor chain
NilMeta == "nil"
Metas == {NilMeta, "meta"}
ProcessorErrs == {ErrNil, ErrPass, ErrInternal, ErrDeadline}
ProcessorResults == [buf : Buffers, meta : Metas, err : ProcessorErrs]

\* params.Verify(app.Secret): whether the token of the request is the
\* signature of its path under the secret.
ParamsVerify(p) == p.verified

\* Authorized with either unsafe flag sufficing.
AuthorizedMutOr(cfg, p) == (cfg.unsafe \/ p.unsafe) \/ ParamsVerify(p)

\* The condition of Do under which the request goes on to load.
Authorized(cfg, p) == (cfg.unsafe /\ p.unsafe) \/ ParamsVerify(p)

\* ProcessStep carrying the bytes of a Pass stage even when it has none.
ProcessStepMutCarryEmpty(st, r) ==
  IF r.err = ErrNil
  THEN [st EXCEPT !.buf = r.buf, !.meta = r.meta, !.brk = TRUE]
  ELSE IF r.err = ErrPass
  THEN [st EXCEPT !.buf = r.buf]
  ELSE [st EXCEPT !.err = r.err]

\* One iteration of the loop over app.Processors, for a processor that
\* returned r: buf, meta and err are the named results of Do.
ProcessStep(st, r) ==
  IF r.err = ErrNil
  THEN [st EXCEPT !.buf = r.buf, !.meta = r.meta, !.brk = TRUE]
  ELSE IF r.err = ErrPass
  THEN [st EXCEPT !.buf = IF Len(r.buf) > 0 THEN r.buf ELSE st.buf]
  ELSE [st EXCEPT !.err = r.err]

\* What app.load can hand back to Do: the outcome of a loader chain, or the
\* error of the caller's own context when its wait is given up.
RECURSIVE SeqsUpTo(_, _)
SeqsUpTo(S, n) ==
  IF n = 0 THEN {<<>>}
  ELSE LET shorter == SeqsUpTo(S, n - 1)
       IN  shorter \cup {Append(q, x) : q \in shorter, x \in S}

LoadOutcomes ==
  {LoadReturn(Produce(rs, 0, FALSE)) : rs \in SeqsUpTo(LoaderResults, MaxLoaders)}
    \cup {LoadReturn([buf |-> NilBuf, err |-> e]) : e \in {ErrCanceled, ErrDeadline}}

\* -------------------------------------------------------- response shaping
\* Whether an error is an imagor.Error, as the assertion .(Error) tells.
IsError(e) == e \in {ErrPass, ErrNotFound, ErrHashMismatch, ErrInternal, ErrTimeout}

\* The status code an imagor.Error carries; Pass and NotFound have their own.
Code(e) ==
  CASE e = ErrPass -> 400
    [] e = ErrHashMismatch -> 403
    [] e = ErrNotFound -> 404
    [] e = ErrTimeout -> 408
    [] OTHER -> 500

\* The status of a response written without a call of WriteHeader.
StatusOK == 200

\* json.Marshal of the values handed to resJSON: the service descriptor, a
\* *Meta, or an error.  An imagor.Error marshals to its message and status;
\* an error of another type has no exported field and marshals to {}.
NoJSON == [type |-> "none", message |-> "", status |-> 0]
DescriptorJSON == [type |-> "descriptor", message |-> "Imagor 0.1.0", status |-> 0]
MetaJSON(m) == [type |-> "meta", message |-> m, status |-> 0]
ErrorJSON(e) ==
  IF IsError(e) THEN [type |-> "error", message |-> e, status |-> Code(e)]
  ELSE [type |-> "object", message |-> "", status |-> 0]

\* A response: the status line, the Content-Type header and the body.
NoResp ==
  [status |-> 0, ctype |-> "none",
   body |-> [kind |-> "none", bytes |-> NilBuf, json |-> NoJSON]]

\* resJSON(w, v) on a response whose status so far is status.
ResJSON(status, v) ==
  [status |-> status, ctype |-> "application/json",
   body |-> [kind |-> "json", bytes |-> NilBuf, json |-> v]]

\* w.Write(buf) on a response whose status and content type so far are given.
ResBytes(status, ctype, buf) ==
  [status |-> status, ctype |-> ctype,
   body |-> [kind |-> "bytes", bytes |-> buf, json |-> NoJSON]]

\* What ServeHTTP writes for the buf, meta, err that app.Do returned, for a
\* request whose params.Meta is req.meta.
ServeResponse(req, buf, meta, err) ==
  LET ln == Len(buf)
      ctype == IF meta # NilMeta THEN "meta.ContentType"
               ELSE IF ln > 0 THEN "detected" ELSE "none"
      wrapped == WrapError(err)
      e == IF wrapped = ErrPass THEN ErrNotFound ELSE wrapped
      status == IF IsError(wrapped) THEN Code(e) ELSE StatusOK
  IN  IF meta # NilMeta /\ req.meta
      THEN ResJSON(StatusOK, MetaJSON(meta))
      ELSE IF err # ErrNil
      THEN IF ln > 0 THEN ResBytes(status, ctype, buf)
           ELSE ResJSON(status, ErrorJSON(err))
      ELSE ResBytes(StatusOK, ctype, buf)

\* The errors a value of Do's result type error may be.
DoErrs ==
  {ErrNil, ErrPass, ErrNotFound, ErrHashMismatch, ErrInternal, ErrTimeout,
   ErrCanceled, ErrDeadline, ErrIO}

\* --------------------------------------------------------------- variables
VARIABLES
  ld_pc,        \* SpecLoad: position in the producing function
  ld_cfg,       \* SpecLoad: [loaders, storages, debug] of the Imagor value
  ld_i,         \* SpecLoad: index of the loader the loop is at
  ld_st,        \* SpecLoad: buf, err, brk and the log written so far
  ld_calls,     \* SpecLoad: which loader each call so far went to, and its result
  ld_out,       \* SpecLoad: what the producing function and load returned
  do_pc,        \* SpecDo: position in Do
  do_cfg,       \* SpecDo: [unsafe, processors] of the Imagor value
  do_params,    \* SpecDo: [unsafe, verified] of the request's params
  do_i,         \* SpecDo: index of the processor the loop is at
  do_st,        \* SpecDo: the named results buf, meta, err of Do, and brk
  do_loaded,    \* SpecDo: what app.load returned to Do, <<>> before the call
  do_calls,     \* SpecDo: input and result of each Process call so far
  http_pc,      \* SpecDo, SpecServe: position in ServeHTTP
  http_req,     \* SpecDo, SpecServe: [root, meta], the path and params.Meta
  http_resp,    \* SpecDo, SpecServe: the response written
  storages,     \* Spec: len(app.Storages)
  cache,        \* Spec: app.Cache, key -> entry
  execs,        \* Spec: the executions of the producing function, in start order
  call,         \* Spec: each caller's call of app.load
  ctxDone,      \* Spec: whether each caller's request context is cancelled
  saves,        \* Spec: the save goroutines started, in order: [exec, storage, image, buf]
  sv_pc,        \* SpecSave: whether app.save has been called
  sv_timeout,   \* SpecSave: app.RequestTimeout, 0 for none
  sv_req,       \* SpecSave: the context of the originating request
  sv_tasks,     \* SpecSave: the save goroutines, by storage
  sv_crashed,   \* SpecSave: whether the process has died of a panic
  sv_out,       \* SpecSave: the bytes loaded, and what load returned if it has
  lc_pc,        \* SpecLifecycle: position in Startup or Shutdown
  lc_op,        \* SpecLifecycle: which of the two is running or ran last
  lc_n,         \* SpecLifecycle: len(app.Processors)
  lc_i,         \* SpecLifecycle: index of the processor the loop is at
  lc_st,        \* SpecLifecycle: the named result err, and whether it returned
  lc_calls,     \* SpecLifecycle: the processor calls made, [op, processor, err]
  lc_out,       \* SpecLifecycle: what Startup and Shutdown returned
  fl_list,      \* SpecFlag: the networks the CIDRSliceFlag holds
  fl_last       \* SpecFlag: the latest call of Set: its value, the list before, its error

ldVars == <<ld_pc, ld_cfg, ld_i, ld_st, ld_calls, ld_out>>
doVars == <<do_pc, do_cfg, do_params, do_i, do_st, do_loaded, do_calls>>
httpVars == <<http_pc, http_req, http_resp>>
ccVars == <<storages, cache, execs, call, ctxDone, saves>>
svVars == <<sv_pc, sv_timeout, sv_req, sv_tasks, sv_crashed, sv_out>>
lcVars == <<lc_pc, lc_op, lc_n, lc_i, lc_st, lc_calls, lc_out>>
flVars == <<fl_list, fl_last>>

NoCfg == [loaders |-> 0, storages |-> 0, debug |-> FALSE]
NoOut == [buf |-> NilBuf, err |-> ErrNil, log |-> <<>>, saves |-> <<>>, ret |-> [buf |-> NilBuf, err |-> ErrNil]]

LdInit ==
  /\ ld_pc = "idle"
  /\ ld_cfg = NoCfg
  /\ ld_i = 0
  /\ ld_st = ProduceInit
  /\ ld_calls = <<>>
  /\ ld_out = NoOut

\* The cache calls the producing function of load for one image.
LdBegin ==
  /\ ld_pc = "idle"
  /\ \E n \in 0..MaxLoaders, s \in 0..MaxStorages, d \in BOOLEAN :
       ld_cfg' = [loaders |-> n, storages |-> s, debug |-> d]
  /\ ld_pc' = "loop"
  /\ ld_i' = 1
  /\ ld_st' = ProduceInit
  /\ UNCHANGED <<ld_calls, ld_out>>
  /\ UNCHANGED <<doVars, httpVars, ccVars, svVars, lcVars, flVars>>

\* loader.Load(dr, image) for the loader at ld_i, and the loop body after it.
LdLoader ==
  /\ ld_pc = "loop"
  /\ ld_i <= ld_cfg.loaders
  /\ ~ld_st.brk
  /\ \E r \in LoaderResults :
       /\ ld_st' = LoaderStep(ld_st, r, ld_cfg.debug)
       /\ ld_calls' = Append(ld_calls, [loader |-> ld_i, buf |-> r.buf, err |-> r.err])
  /\ ld_i' = ld_i + 1
  /\ UNCHANGED <<ld_pc, ld_cfg, ld_out>>
  /\ UNCHANGED <<doVars, httpVars, ccVars, svVars, lcVars, flVars>>

\* The loop is over (break, or no loader left): the tail of the producing
\* function, and load's return through WrapError.
LdEnd ==
  /\ ld_pc = "loop"
  /\ (ld_st.brk \/ ld_i > ld_cfg.loaders)
  /\ LET res == ProduceEnd(ld_st, ld_cfg.storages, ld_cfg.debug)
     IN  ld_out' = [buf |-> res.buf, err |-> res.err, log |-> res.log,
                    saves |-> res.saves, ret |-> LoadReturn(res)]
  /\ ld_pc' = "returned"
  /\ UNCHANGED <<ld_cfg, ld_i, ld_st, ld_calls>>
  /\ UNCHANGED <<doVars, httpVars, ccVars, svVars, lcVars, flVars>>

LdNext == LdBegin \/ LdLoader \/ LdEnd

\* ------------------------------------------------------------------ SpecDo
DoStInit == [buf |-> NilBuf, meta |-> NilMeta, err |-> ErrNil, brk |-> FALSE]

DoInit ==
  /\ do_pc = "idle"
  /\ do_cfg = [unsafe |-> FALSE, processors |-> 0]
  /\ do_params = [unsafe |-> FALSE, verified |-> FALSE]
  /\ do_i = 0
  /\ do_st = DoStInit
  /\ do_loaded = <<>>
  /\ do_calls = <<>>

HttpInit ==
  /\ http_pc = "idle"
  /\ http_req = [root |-> FALSE, meta |-> FALSE]
  /\ http_resp = NoResp

\* ServeHTTP is entered: the root path is answered with the service
\* descriptor at once; any other path is parsed and handed to app.Do.
HttpBegin ==
  /\ http_pc = "idle"
  /\ \E root \in BOOLEAN, m \in BOOLEAN :
       /\ root => ~m
       /\ http_req' = [root |-> root, meta |-> m]
       /\ IF root
          THEN http_pc' = "done" /\ http_resp' = ResJSON(StatusOK, DescriptorJSON)
          ELSE http_pc' = "do" /\ http_resp' = NoResp
  /\ UNCHANGED <<doVars, ldVars, ccVars, svVars, lcVars, flVars>>

\* Do is entered and checks the signature: a request that is not authorized
\* returns ErrHashMismatch at once.
DoBegin ==
  /\ http_pc = "do"
  /\ do_pc = "idle"
  /\ \E au \in BOOLEAN, n \in 0..MaxProcessors, pu \in BOOLEAN, pv \in BOOLEAN :
       LET cfg == [unsafe |-> au, processors |-> n]
           p == [unsafe |-> pu, verified |-> pv]
       IN  /\ do_cfg' = cfg
           /\ do_params' = p
           /\ IF Authorized(cfg, p)
              THEN do_pc' = "load" /\ do_st' = DoStInit
              ELSE do_pc' = "returned" /\ do_st' = [DoStInit EXCEPT !.err = ErrHashMismatch]
  /\ UNCHANGED <<do_i, do_loaded, do_calls>>
  /\ UNCHANGED <<httpVars, ldVars, ccVars, svVars, lcVars, flVars>>

\* Do going on to the processors whatever load returned.
DoAfterLoadMutGoOn(res) == "process"

\* Where Do goes after buf, err = app.load(r, params.Image): an error
\* returns from Do at once, with meta still nil.
DoAfterLoad(res) == IF res.err # ErrNil THEN "returned" ELSE "process"

\* buf, err = app.load(r, params.Image): an error returns from Do.
DoLoad ==
  /\ do_pc = "load"
  /\ \E res \in LoadOutcomes :
       /\ do_loaded' = <<res>>
       /\ do_st' = [do_st EXCEPT !.buf = res.buf, !.err = res.err]
       /\ do_pc' = DoAfterLoad(res)
  /\ do_i' = 1
  /\ UNCHANGED <<do_cfg, do_params, do_calls>>
  /\ UNCHANGED <<httpVars, ldVars, ccVars, svVars, lcVars, flVars>>

\* processor.Process(ctx, buf, params, load) for the processor at do_i, and
\* the loop body after it.
DoProcess ==
  /\ do_pc = "process"
  /\ do_i <= do_cfg.processors
  /\ ~do_st.brk
  /\ \E r \in ProcessorResults :
       /\ do_st' = ProcessStep(do_st, r)
       /\ do_calls' = Append(do_calls, [in |-> do_st.buf, out |-> r])
  /\ do_i' = do_i + 1
  /\ UNCHANGED <<do_pc, do_cfg, do_params, do_loaded>>
  /\ UNCHANGED <<httpVars, ldVars, ccVars, svVars, lcVars, flVars>>

\* The loop is over (break, or no processor left): Do returns buf, meta, err.
DoEnd ==
  /\ do_pc = "process"
  /\ (do_st.brk \/ do_i > do_cfg.processors)
  /\ do_pc' = "returned"
  /\ UNCHANGED <<do_cfg, do_params, do_i, do_st, do_loaded, do_calls>>
  /\ UNCHANGED <<httpVars, ldVars, ccVars, svVars, lcVars, flVars>>

\* app.Do has returned: ServeHTTP writes the response.
HttpRespond ==
  /\ http_pc = "do"
  /\ do_pc = "returned"
  /\ http_resp' = ServeResponse(http_req, do_st.buf, do_st.meta, do_st.err)
  /\ http_pc' = "done"
  /\ UNCHANGED http_req
  /\ UNCHANGED <<doVars, ldVars, ccVars, svVars, lcVars, flVars>>

DoNext == HttpBegin \/ DoBegin \/ DoLoad \/ DoProcess \/ DoEnd \/ HttpRespond

\* --------------------------------------------------------------- SpecServe
\* The response shaping of ServeHTTP alone, as a function of what app.Do
\* hands back: every buf, meta and err of Do's result types.
ServeInit ==
  /\ http_pc = "do"
  /\ http_req \in [root : {FALSE}, meta : BOOLEAN]
  /\ http_resp = NoResp
  /\ do_pc = "returned"
  /\ do_cfg = [unsafe |-> FALSE, processors |-> 0]
  /\ do_params = [unsafe |-> FALSE, verified |-> FALSE]
  /\ do_i = 0
  /\ do_st \in [buf : Buffers, meta : Metas, err : DoErrs, brk : {FALSE}]
  /\ do_loaded = <<>>
  /\ do_calls = <<>>

ServeNext == HttpRespond

\* -------------------------------------------------------------------- Spec
\* The callers of app.load, from Do or from the load callback handed to a
\* processor, and the image they ask for.  Spec records the save goroutines
\* an execution starts; how they run, and the panic that can end the
\* process, is in SpecSave.
Callers == 1..NCallers
Images == {"a"}

\* app.CacheTTL, in ticks of the clock.
CacheTTL == 2

\* A key that tells the requests apart.
LoadKeyMutPerRequest(c, img) == [image |-> img, req |-> c]

\* The key load gives the cache: the image alone (req is 0 for every request).
LoadKey(c, img) == [image |-> img, req |-> 0]

Keys == [image : Images, req : 0..NCallers]

\* A duration one tick longer than app.CacheTTL.
LoadTTLMutLonger == CacheTTL + 1

\* The two durations load gives cache.NewFunc after the timeout.
LoadTTL == CacheTTL

\* The loaders run under the request's own context.
LoaderContextMutRequest(cacheCtx, reqCtx) == reqCtx

\* The context the loaders run under: that of dr := r.WithContext(ctx), the
\* context the cache hands to the producing function, not the request's own.
LoaderContext(cacheCtx, reqCtx) == cacheCtx

\* The cache: an entry holds the outcome of one execution and its age, the
\* ticks since it was stored (an age of CacheTTL stands for that or more);
\* it is live while younger than the duration given.
NoEntry == [has |-> FALSE, buf |-> NilBuf, err |-> ErrNil, age |-> 0]
Live(entry, ttl) == entry.has /\ entry.age < ttl
Older(entry) ==
  IF entry.has /\ entry.age < CacheTTL THEN [entry EXCEPT !.age = entry.age + 1]
  ELSE entry

\* The context the cache hands to the producing function is cut off from the
\* caller's cancellation: 0 names a context no caller cancels.
Detached == 0
ProduceContext(c) == Detached

Running(k) == {e \in 1..Len(execs) : execs[e].key = k /\ execs[e].state = "running"}

\* Whether the context the loaders of execution e run under is cancelled.
ExecCtxDone(e) == execs[e].ctx # Detached /\ ctxDone[execs[e].ctx]

\* What the loaders of a shared execution return: a cancellation error only
\* under a cancelled context.
SharedLoaderResults ==
  {[buf |-> <<1>>, err |-> ErrNil], [buf |-> <<2>>, err |-> ErrNil],
   [buf |-> NilBuf, err |-> ErrPass], [buf |-> NilBuf, err |-> ErrIO]}
CanceledLoaderResults == {[buf |-> NilBuf, err |-> ErrCanceled]}

Outcome(res) == [buf |-> res.buf, err |-> res.err, saves |-> res.saves]

ExecOutcomes(done, nStorages) ==
  {Outcome(Produce(rs, nStorages, FALSE)) :
     rs \in SeqsUpTo(IF done THEN CanceledLoaderResults ELSE SharedLoaderResults,
                     MaxLoaders) \ {<<>>}}

NoCall == [pc |-> "idle", image |-> "a", exec |-> 0, how |-> "none",
           res |-> [buf |-> NilBuf, err |-> ErrNil], age |-> 0]

CcInit ==
  /\ storages \in 0..MaxStorages
  /\ cache = [k \in Keys |-> NoEntry]
  /\ execs = <<>>
  /\ call = [c \in Callers |-> NoCall]
  /\ ctxDone = [c \in Callers |-> FALSE]
  /\ saves = <<>>

\* app.load(r, image) is entered by caller c: DoBytes returns a live entry,
\* or joins the execution in flight for the key, or starts one.
LoadCall(c, img) ==
  /\ call[c].pc = "idle"
  /\ LET k == LoadKey(c, img)
     IN  IF Live(cache[k], LoadTTL)
         THEN /\ call' = [call EXCEPT ![c] =
                   [pc |-> "returned", image |-> img, exec |-> 0, how |-> "hit",
                    res |-> LoadReturn(cache[k]), age |-> cache[k].age]]
              /\ UNCHANGED execs
         ELSE IF Running(k) # {}
         THEN /\ call' = [call EXCEPT ![c] =
                   [NoCall EXCEPT !.pc = "waiting", !.image = img,
                                  !.exec = CHOOSE e \in Running(k) : TRUE]]
              /\ UNCHANGED execs
         ELSE /\ Len(execs) < MaxExecs
              /\ execs' = Append(execs,
                   [key |-> k, image |-> img, state |-> "running",
                    ctx |-> LoaderContext(ProduceContext(c), c),
                    buf |-> NilBuf, err |-> ErrNil])
              /\ call' = [call EXCEPT ![c] =
                   [NoCall EXCEPT !.pc = "waiting", !.image = img,
                                  !.exec = Len(execs) + 1]]
  /\ UNCHANGED <<storages, cache, ctxDone, saves>>
  /\ UNCHANGED <<ldVars, doVars, httpVars, svVars, lcVars, flVars>>

\* The producing function of execution e returns: the cache stores the
\* outcome under the key, and a successful chain has started its saves.
ExecFinish(e) ==
  /\ e \in 1..Len(execs)
  /\ execs[e].state = "running"
  /\ \E out \in ExecOutcomes(ExecCtxDone(e), storages) :
       /\ execs' = [execs EXCEPT ![e].state = "done", ![e].buf = out.buf,
                                 ![e].err = out.err]
       /\ cache' = [cache EXCEPT ![execs[e].key] =
                      [has |-> TRUE, buf |-> out.buf, err |-> out.err, age |-> 0]]
       /\ saves' = saves \o [i \in 1..Len(out.saves) |->
                               [exec |-> e, storage |-> out.saves[i],
                                image |-> execs[e].image, buf |-> out.buf]]
  /\ UNCHANGED <<storages, call, ctxDone>>
  /\ UNCHANGED <<ldVars, doVars, httpVars, svVars, lcVars, flVars>>

\* A waiting caller is handed the outcome of the execution it waited for.
Receive(c) ==
  /\ call[c].pc = "waiting"
  /\ execs[call[c].exec].state = "done"
  /\ call' = [call EXCEPT ![c].pc = "returned", ![c].how = "exec",
                          ![c].res = LoadReturn(execs[call[c].exec])]
  /\ UNCHANGED <<storages, cache, execs, ctxDone, saves>>
  /\ UNCHANGED <<ldVars, doVars, httpVars, svVars, lcVars, flVars>>

\* The request context of a waiting caller is cancelled: the caller stops
\* waiting with the context's error.
CancelWait(c) ==
  /\ call[c].pc = "waiting"
  /\ ctxDone' = [ctxDone EXCEPT ![c] = TRUE]
  /\ call' = [call EXCEPT ![c].pc = "returned", ![c].how = "ctx",
                          ![c].res = LoadReturn([buf |-> NilBuf, err |-> ErrCanceled])]
  /\ UNCHANGED <<storages, cache, execs, saves>>
  /\ UNCHANGED <<ldVars, doVars, httpVars, svVars, lcVars, flVars>>

\* Time passes.
Tick ==
  /\ \E k \in Keys : Older(cache[k]) # cache[k]
  /\ cache' = [k \in Keys |-> Older(cache[k])]
  /\ UNCHANGED <<storages, execs, call, ctxDone, saves>>
  /\ UNCHANGED <<ldVars, doVars, httpVars, svVars, lcVars, flVars>>

\* The bounded store drops an entry to admit others.
Evict(k) ==
  /\ cache[k].has
  /\ cache' = [cache EXCEPT ![k] = NoEntry]
  /\ UNCHANGED <<storages, execs, call, ctxDone, saves>>
  /\ UNCHANGED <<ldVars, doVars, httpVars, svVars, lcVars, flVars>>

CcNext ==
  \/ \E c \in Callers, img \in Images : LoadCall(c, img)
  \/ \E e \in 1..MaxExecs : ExecFinish(e)
  \/ \E c \in Callers : Receive(c)
  \/ \E c \in Callers : CancelWait(c)
  \/ Tick
  \/ \E k \in Keys : Evict(k)

\* ---------------------------------------------------------------- SpecSave
\* app.RequestTimeout: 0 (no bound) or a positive duration.
RequestTimeouts == {0, 1}

\* DetachContext(ctx): a context that is never cancelled with its parent;
\* the result names the context whose cancellation the task observes.
DetachContext(parent) == "none"

\* The goroutine save starts for one storage: its context, and whether the
\* cancel it defers is a function (WithTimeout ran) or nil.
SaveTask(parent, timeout) ==
  [state |-> "scheduled", parent |-> DetachContext(parent),
   hasCancel |-> timeout > 0, expired |-> FALSE, result |-> "none"]

\* Whether the context given to Storage.Save is done.
SaveCtxDone(t) == t.expired \/ (t.parent = "request" /\ sv_req = "done")

\* The request path beside the save goroutines: the bytes the chain loaded,
\* and what load has returned to its caller once it has.
NoSaveOut ==
  [loaded |-> NilBuf, returned |-> FALSE, res |-> [buf |-> NilBuf, err |-> ErrNil]]

SvInit ==
  /\ sv_pc = "idle"
  /\ sv_timeout = 0
  /\ sv_req = "live"
  /\ sv_tasks = <<>>
  /\ sv_crashed = FALSE
  /\ sv_out = NoSaveOut

\* app.save(ctx, app.Storages, image, buf), called by the producing function
\* after a successful chain: one goroutine per storage.
SvSave ==
  /\ sv_pc = "idle"
  /\ \E n \in 1..MaxStorages, t \in RequestTimeouts :
       /\ sv_timeout' = t
       /\ sv_tasks' = [s \in 1..n |-> SaveTask("request", t)]
  /\ \E b \in Buffers : sv_out' = [NoSaveOut EXCEPT !.loaded = b]
  /\ sv_pc' = "saved"
  /\ UNCHANGED <<sv_req, sv_crashed>>
  /\ UNCHANGED <<ldVars, doVars, httpVars, ccVars, lcVars, flVars>>

\* save has started the goroutines and returned at once: the producing
\* function returns the loaded bytes with a nil error, and load hands them
\* to its caller, unless the process has died before.
SvLoadReturn ==
  /\ ~sv_crashed
  /\ sv_pc = "saved"
  /\ ~sv_out.returned
  /\ sv_out' = [sv_out EXCEPT !.returned = TRUE,
                              !.res = LoadReturn([buf |-> sv_out.loaded, err |-> ErrNil])]
  /\ UNCHANGED <<sv_pc, sv_timeout, sv_req, sv_tasks, sv_crashed>>
  /\ UNCHANGED <<ldVars, doVars, httpVars, ccVars, lcVars, flVars>>

\* The originating request is cancelled, or its handler returns.
SvRequestDone ==
  /\ ~sv_crashed
  /\ sv_req = "live"
  /\ sv_req' = "done"
  /\ UNCHANGED <<sv_pc, sv_timeout, sv_tasks, sv_crashed, sv_out>>
  /\ UNCHANGED <<ldVars, doVars, httpVars, ccVars, lcVars, flVars>>

\* The goroutine of storage s runs and calls s.Save(sCtx, image, buf).
SvCall(s) ==
  /\ ~sv_crashed
  /\ s \in DOMAIN sv_tasks
  /\ sv_tasks[s].state = "scheduled"
  /\ sv_tasks' = [sv_tasks EXCEPT ![s].state = "saving"]
  /\ UNCHANGED <<sv_pc, sv_timeout, sv_req, sv_crashed, sv_out>>
  /\ UNCHANGED <<ldVars, doVars, httpVars, ccVars, lcVars, flVars>>

\* The timeout of the task's own context passes.
SvExpire(s) ==
  /\ ~sv_crashed
  /\ s \in DOMAIN sv_tasks
  /\ sv_tasks[s].hasCancel
  /\ sv_tasks[s].state \in {"scheduled", "saving"}
  /\ ~sv_tasks[s].expired
  /\ sv_tasks' = [sv_tasks EXCEPT ![s].expired = TRUE]
  /\ UNCHANGED <<sv_pc, sv_timeout, sv_req, sv_crashed, sv_out>>
  /\ UNCHANGED <<ldVars, doVars, httpVars, ccVars, lcVars, flVars>>

\* Save returns, its error is logged, and the deferred cancel() runs: a nil
\* cancel panics, and the panic of a goroutine ends the process.
SvReturn(s) ==
  /\ ~sv_crashed
  /\ s \in DOMAIN sv_tasks
  /\ sv_tasks[s].state = "saving"
  /\ \E r \in (IF SaveCtxDone(sv_tasks[s]) THEN {"error"} ELSE {"ok", "error"}) :
       sv_tasks' = [sv_tasks EXCEPT
                      ![s].result = r,
                      ![s].state = IF sv_tasks[s].hasCancel THEN "ended" ELSE "panicked"]
  /\ sv_crashed' = ~sv_tasks[s].hasCancel
  /\ UNCHANGED <<sv_pc, sv_timeout, sv_req, sv_out>>
  /\ UNCHANGED <<ldVars, doVars, httpVars, ccVars, lcVars, flVars>>

SvNext ==
  \/ SvSave
  \/ SvLoadReturn
  \/ SvRequestDone
  \/ \E s \in 1..MaxStorages : SvCall(s)
  \/ \E s \in 1..MaxStorages : SvExpire(s)
  \/ \E s \in 1..MaxStorages : SvReturn(s)

\* ----------------------------------------------------------- SpecLifecycle
\* What a processor's Startup or Shutdown may return.
LifecycleErrs == {ErrNil, ErrIO, ErrCanceled, ErrDeadline}

\* The named result err on entry, and whether the function has returned.
LifecycleInit == [err |-> ErrNil, ret |-> FALSE]

\* The loop body without the return on an error.
LifecycleStepMutGoOn(st, e) == [st EXCEPT !.err = e]

\* The loop body of Startup and of Shutdown, for a processor returning e:
\* if err = processor.Startup(ctx); err != nil { return }.
LifecycleStep(st, e) == [st EXCEPT !.err = e, !.ret = (e # ErrNil)]

NoLifecycleOut == [returned |-> FALSE, err |-> ErrNil]

LcInit ==
  /\ lc_pc = "idle"
  /\ lc_op = "none"
  /\ lc_n = 0
  /\ lc_i = 0
  /\ lc_st = LifecycleInit
  /\ lc_calls = <<>>
  /\ lc_out = [op \in {"Startup", "Shutdown"} |-> NoLifecycleOut]

\* app.Startup(ctx) is entered, on a server with n processors.
Startup ==
  /\ lc_pc = "idle"
  /\ \E n \in 0..MaxProcessors : lc_n' = n
  /\ lc_op' = "Startup"
  /\ lc_pc' = "loop"
  /\ lc_i' = 1
  /\ lc_st' = LifecycleInit
  /\ UNCHANGED <<lc_calls, lc_out>>
  /\ UNCHANGED <<ldVars, doVars, httpVars, ccVars, svVars, flVars>>

\* app.Shutdown(ctx) is entered, once Startup has returned.
Shutdown ==
  /\ lc_pc = "returned"
  /\ lc_op = "Startup"
  /\ lc_op' = "Shutdown"
  /\ lc_pc' = "loop"
  /\ lc_i' = 1
  /\ lc_st' = LifecycleInit
  /\ UNCHANGED <<lc_n, lc_calls, lc_out>>
  /\ UNCHANGED <<ldVars, doVars, httpVars, ccVars, svVars, flVars>>

\* processor.Startup(ctx) or processor.Shutdown(ctx) for the processor at
\* lc_i, and the loop body after it.
LifecycleProcessor ==
  /\ lc_pc = "loop"
  /\ lc_i <= lc_n
  /\ ~lc_st.ret
  /\ \E e \in LifecycleErrs :
       /\ lc_st' = LifecycleStep(lc_st, e)
       /\ lc_calls' = Append(lc_calls, [op |-> lc_op, processor |-> lc_i, err |-> e])
  /\ lc_i' = lc_i + 1
  /\ UNCHANGED <<lc_pc, lc_op, lc_n, lc_out>>
  /\ UNCHANGED <<ldVars, doVars, httpVars, ccVars, svVars, flVars>>

\* The function returns err: from inside the loop, or after it.
LifecycleReturn ==
  /\ lc_pc = "loop"
  /\ (lc_st.ret \/ lc_i > lc_n)
  /\ lc_pc' = "returned"
  /\ lc_out' = [lc_out EXCEPT ![lc_op] = [returned |-> TRUE, err |-> lc_st.err]]
  /\ UNCHANGED <<lc_op, lc_n, lc_i, lc_st, lc_calls>>
  /\ UNCHANGED <<ldVars, doVars, httpVars, ccVars, svVars, flVars>>

LcNext == Startup \/ Shutdown \/ LifecycleProcessor \/ LifecycleReturn

\* ---------------------------------------------------------------- SpecFlag
\* config.CIDRSliceFlag (src/config/flags.go).  The value given to Set is a
\* string, modelled as a sequence of pieces of text: a comma, a CIDR
\* expression, or text that is no part of one.  Addresses have AddrBits bits.
Comma == [kind |-> "sep", ip |-> 0, bits |-> 0]
Junk == [kind |-> "junk", ip |-> 0, bits |-> 0]
CIDRTexts ==
  {[kind |-> "cidr", ip |-> 3, bits |-> 1], [kind |-> "cidr", ip |-> 1, bits |-> 2]}
Pieces == {Comma, Junk} \cup CIDRTexts
FlagValues == SeqsUpTo(Pieces, MaxValueLen)

ErrParse == "net.ParseError"
NilNet == [ip |-> 0, bits |-> 0]

\* strings.Split(value, ","): the texts between the commas, in order; a
\* value with no comma, the empty value included, is one element.
RECURSIVE SplitFrom(_, _, _)
SplitFrom(value, cur, acc) ==
  IF value = <<>> THEN Append(acc, cur)
  ELSE IF Head(value).kind = "sep"
  THEN SplitFrom(Tail(value), <<>>, Append(acc, cur))
  ELSE SplitFrom(Tail(value), Append(cur, Head(value)), acc)

Split(value) == SplitFrom(value, <<>>, <<>>)

\* The address with all but its leading bits cleared.
Mask(ip, bits) == (ip \div (2 ^ (AddrBits - bits))) * (2 ^ (AddrBits - bits))

\* net.ParseCIDR(v): the network of a text that is exactly one CIDR
\* expression, its address masked to the prefix; an error for any other.
ParseCIDR(v) ==
  IF Len(v) = 1 /\ v[1].kind = "cidr"
  THEN [err |-> ErrNil, network |-> [ip |-> Mask(v[1].ip, v[1].bits), bits |-> v[1].bits]]
  ELSE [err |-> ErrParse, network |-> NilNet]

\* The loop of Set over the elements, from the networks res gathered so far:
\* it stops at the first element that does not parse.
RECURSIVE SetLoop(_, _)
SetLoop(res, elems) ==
  IF elems = <<>> THEN [res |-> res, err |-> ErrNil]
  ELSE LET parsed == ParseCIDR(Head(elems))
       IN  IF parsed.err # ErrNil THEN [res |-> res, err |-> parsed.err]
           ELSE SetLoop(Append(res, parsed.network), Tail(elems))

\* Set appending each network to the flag's list as it is parsed.
SetMutAppend(list, value) ==
  LET r == SetLoop(list, Split(value)) IN [list |-> r.res, err |-> r.err]

\* (*CIDRSliceFlag).Set(value) on a flag holding list: the list after the
\* call and the error returned.
Set(list, value) ==
  LET r == SetLoop(<<>>, Split(value))
  IN  IF r.err # ErrNil THEN [list |-> list, err |-> r.err]
      ELSE [list |-> r.res, err |-> ErrNil]

NoSet == [called |-> FALSE, value |-> <<>>, before |-> <<>>, err |-> ErrNil]

FlInit ==
  /\ fl_list = <<>>
  /\ fl_last = NoSet

\* The flag is given on the command line once more: Set(value).
FlSet ==
  /\ \E value \in FlagValues :
       LET r == Set(fl_list, value)
       IN  /\ fl_list' = r.list
           /\ fl_last' = [called |-> TRUE, value |-> value, before |-> fl_list,
                         err |-> r.err]
  /\ UNCHANGED <<ldVars, doVars, httpVars, ccVars, svVars, lcVars>>

FlNext == FlSet

\* ---------------------------------------------------------- specifications
vars == <<ldVars, doVars, httpVars, ccVars, svVars, lcVars, flVars>>

\* Every specification starts all four parts at rest; Spec alone draws the
\* number of storages.
AllInit == LdInit /\ DoInit /\ HttpInit /\ CcInit /\ SvInit /\ LcInit /\ FlInit

RestInit == AllInit /\ storages = 0

SpecLoad == RestInit /\ [][LdNext]_vars

SpecDo == RestInit /\ [][DoNext]_vars

\* SpecServe starts from what app.Do returned, every other part at rest.
ServeRestInit ==
  ServeInit /\ LdInit /\ CcInit /\ SvInit /\ LcInit /\ FlInit /\ storages = 0

SpecServe == ServeRestInit /\ [][ServeNext]_vars

Spec == AllInit /\ [][CcNext]_vars

SpecSave == RestInit /\ [][SvNext]_vars

SpecLifecycle == RestInit /\ [][LcNext]_vars

SpecFlag == RestInit /\ [][FlNext]_vars

\* ------------------------------------------------------------------ claims
Last(q) == q[Len(q)]
MaxOf(S) == CHOOSE x \in S : \A y \in S : y <= x

DoReturned == do_pc = "returned"
DoLoadedOk == do_loaded # <<>> /\ do_loaded[1].err = ErrNil

\* C2 (SpecDo): unless app.Unsafe and params.Unsafe are both true, a request
\* whose signature does not verify makes Do return ErrHashMismatch with no
\* bytes and no metadata, and neither app.load (the cache lookup, the loaders
\* and the saves behind it) nor any Processor.Process is invoked for it.
C2_Authorization ==
  (do_pc # "idle" /\ ~(do_cfg.unsafe /\ do_params.unsafe) /\ ~do_params.verified)
    => /\ do_pc = "returned"
       /\ do_st = [DoStInit EXCEPT !.err = ErrHashMismatch]
       /\ do_loaded = <<>>
       /\ do_calls = <<>>

\* A request that declares itself unsafe on a server that is not, rejected.
C2_Witness ==
  /\ do_pc = "returned"
  /\ ~do_cfg.unsafe /\ do_params.unsafe /\ ~do_params.verified
  /\ do_st.err = ErrHashMismatch

\* The bytes the loop of Do holds in buf when stage j is invoked, when every
\* stage before j returned Pass: the bytes of the latest such stage that
\* carried any, else the loaded bytes.
CarriedInto(j) ==
  LET ks == {k \in 1..(j - 1) : Len(do_calls[k].out.buf) > 0}
  IN  IF ks = {} THEN do_loaded[1].buf ELSE do_calls[MaxOf(ks)].out.buf

\* C3 (SpecDo): when every stage before stage i returned Pass and stage i is
\* the first to return a nil error, Do returns stage i's bytes and metadata
\* with a nil error, no stage after i is invoked, and the input of stage i
\* was the non-empty bytes of the latest earlier Pass stage that carried
\* any, or the loaded bytes.
C3_FirstSuccess ==
  /\ \A j \in 1..(Len(do_calls) - 1) : do_calls[j].out.err # ErrNil
  /\ (/\ do_calls # <<>>
      /\ \A j \in 1..(Len(do_calls) - 1) : do_calls[j].out.err = ErrPass)
       => /\ \A j \in 1..Len(do_calls) : do_calls[j].in = CarriedInto(j)
          /\ (DoReturned /\ Last(do_calls).out.err = ErrNil)
               => /\ do_st.buf = Last(do_calls).out.buf
                  /\ do_st.meta = Last(do_calls).out.meta
                  /\ do_st.err = ErrNil

\* P1 passes with bytes, P2 succeeds on them with other bytes.
C3_Witness ==
  /\ DoReturned
  /\ Len(do_calls) = 2
  /\ do_calls[1].out.err = ErrPass /\ do_calls[1].out.buf = <<1>>
  /\ do_loaded[1].buf = <<2>>
  /\ do_calls[2].in = <<1>> /\ do_calls[2].out.err = ErrNil
  /\ do_st = [buf |-> <<2>>, meta |-> "meta", err |-> ErrNil, brk |-> TRUE]

\* C4 (SpecDo): whenever a stage returned a nil error, Do returns that
\* stage's bytes and metadata with a nil error; Do never returns metadata
\* together with an error.
C4_MetaExcludesError ==
  DoReturned =>
    /\ (do_calls # <<>> /\ Last(do_calls).out.err = ErrNil)
         => /\ do_st.buf = Last(do_calls).out.buf
            /\ do_st.meta = Last(do_calls).out.meta
            /\ do_st.err = ErrNil
    /\ ~(do_st.meta # NilMeta /\ do_st.err # ErrNil)

\* The last error other than Pass among the stages invoked, Pass if none.
LastNonPass ==
  LET ks == {k \in 1..Len(do_calls) : do_calls[k].out.err # ErrPass}
  IN  IF ks = {} THEN ErrPass ELSE do_calls[MaxOf(ks)].out.err

\* C5 (SpecDo): when the load succeeded and every configured stage was
\* invoked and none returned a nil error, Do returns the last error other
\* than Pass that a stage returned, and Pass when every stage returned Pass.
C5_Exhaustion ==
  (/\ DoReturned /\ DoLoadedOk
   /\ do_calls # <<>>
   /\ \A j \in 1..Len(do_calls) : do_calls[j].out.err # ErrNil)
    => do_st.err = LastNonPass

\* C6 (SpecLoad): when a loader returns a nil error, the producing function
\* returns a nil error and the bytes that loader returned.
C6_FirstLoaderBytes ==
  (ld_pc = "returned" /\ ld_calls # <<>> /\ Last(ld_calls).err = ErrNil)
    => /\ ld_out.err = ErrNil
       /\ ld_out.buf = Last(ld_calls).buf

LdExhausted ==
  /\ ld_pc = "returned"
  /\ ld_calls # <<>>
  /\ \A j \in 1..Len(ld_calls) : ld_calls[j].err # ErrNil

\* C7 as stated (SpecLoad): when every loader returned an error, load
\* returns NotFound if the last loader returned Pass and the last loader's
\* error unchanged otherwise, and never Pass.
C7_ExhaustionUnchanged ==
  LdExhausted =>
    /\ ld_out.ret.err = (IF Last(ld_calls).err = ErrPass THEN ErrNotFound
                         ELSE Last(ld_calls).err)
    /\ ld_out.ret.err # ErrPass

\* C7 as amended (SpecLoad): when every loader returned an error, the
\* producing function returns NotFound if the last loader returned Pass and
\* the last loader's error unchanged otherwise; load returns that error as
\* WrapError classifies it, which is the error itself when it is an
\* imagor.Error; neither is ever Pass or nil, and every loader was invoked.
C7_Exhaustion ==
  LdExhausted =>
    LET e == IF Last(ld_calls).err = ErrPass THEN ErrNotFound
             ELSE Last(ld_calls).err
    IN  /\ Len(ld_calls) = ld_cfg.loaders
        /\ ld_out.err = e
        /\ ld_out.ret.err = WrapError(e)
        /\ ld_out.ret.err \notin {ErrPass, ErrNil}
        /\ ld_out.ret.buf = ld_out.buf

\* Two loaders, both Pass: NotFound.
C7_Witness ==
  /\ LdExhausted
  /\ Len(ld_calls) = 2
  /\ ld_calls[1].err = ErrPass /\ ld_calls[2].err = ErrPass
  /\ ld_out.ret.err = ErrNotFound

ExecsOf(img) == {e \in 1..Len(execs) : execs[e].image = img}
InFlight(img) == {e \in ExecsOf(img) : execs[e].state = "running"}
Waiting(c) == call[c].pc = "waiting"

\* C1 (Spec): for every image at most one execution of the loader chain is
\* in flight, and a later one exists only once the earlier has ended;
\* callers that wait for the same image while its execution is in flight
\* wait for that one execution, so the chain runs once for them;
\* and every caller that is handed the outcome of an execution is handed
\* that execution's bytes and its error as classified, so all callers of one
\* execution receive the same result.  A caller whose own context ended
\* its wait is the case of C9.
C1_Dedup ==
  /\ \A img \in Images :
        /\ Cardinality(InFlight(img)) <= 1
        /\ \A e1, e2 \in ExecsOf(img) : e1 < e2 => execs[e1].state = "done"
  /\ \A c \in Callers : Waiting(c) =>
        /\ call[c].exec \in ExecsOf(call[c].image)
        /\ \A d \in Callers :
              (/\ Waiting(d) /\ call[d].image = call[c].image
               /\ execs[call[c].exec].state = "running"
               /\ execs[call[d].exec].state = "running")
                => call[d].exec = call[c].exec
  /\ \A c \in Callers : call[c].how = "exec" =>
        /\ call[c].exec \in ExecsOf(call[c].image)
        /\ execs[call[c].exec].state = "done"
        /\ call[c].res = LoadReturn(execs[call[c].exec])
  /\ \A c, d \in Callers :
        (call[c].how = "exec" /\ call[d].how = "exec" /\ call[c].exec = call[d].exec)
          => call[c].res = call[d].res

\* Two callers of one image were served by the only execution there was.
C1_Witness ==
  /\ Len(execs) = 1
  /\ \A c \in {1, 2} : /\ call[c].how = "exec" /\ call[c].exec = 1
                       /\ call[c].res = [buf |-> <<1>>, err |-> ErrNil]

\* C8 (SpecSave): once the chain has succeeded with a storage configured,
\* the end of the originating request never ends the context given to a
\* Save, and every save goroutine runs to completion: none is cut short by a
\* panic and none is left undone in a process that has died.
C8_SavesRunToCompletion ==
  \A s \in DOMAIN sv_tasks :
    /\ (sv_req = "done" /\ ~sv_tasks[s].expired) => ~SaveCtxDone(sv_tasks[s])
    /\ sv_tasks[s].state # "panicked"
    /\ sv_crashed => sv_tasks[s].state = "ended"

CancelledWaiter(c) == call[c].how = "ctx"

\* In every state: a caller whose wait was cancelled holds the cancellation
\* error and no bytes; the loaders of an execution in flight never run under
\* a cancelled context and no execution ends by a cancellation; a caller
\* handed an execution's outcome holds that outcome.
C9_StatePart ==
  /\ \A c \in Callers : CancelledWaiter(c) =>
        call[c].res = [buf |-> NilBuf, err |-> WrapError(ErrCanceled)]
  /\ \A e \in 1..Len(execs) :
        /\ execs[e].state = "running" => ~ExecCtxDone(e)
        /\ execs[e].state = "done" => execs[e].err # ErrCanceled
  /\ \A c \in Callers : call[c].how = "exec" =>
        call[c].res = LoadReturn(execs[call[c].exec])

\* In every step: the cancellation of a wait changes nothing but that caller;
\* an execution that ends writes its outcome to the cache.
C9_StepPart ==
  /\ \A c \in Callers : (Waiting(c) /\ CancelledWaiter(c)') =>
        /\ execs' = execs
        /\ cache' = cache
        /\ \A d \in Callers \ {c} : call'[d] = call[d]
  /\ \A e \in 1..Len(execs) :
        (execs[e].state = "running" /\ execs'[e].state = "done") =>
          cache'[[image |-> execs[e].image, req |-> 0]] =
            [has |-> TRUE, buf |-> execs'[e].buf, err |-> execs'[e].err, age |-> 0]

\* C9 (Spec): a caller whose context is cancelled while it waits returns the
\* cancellation error with no bytes; that step changes neither the execution
\* it waited for, nor the cache, nor any other caller; no execution ever
\* ends by a cancellation, so the other waiters are handed its outcome; and
\* an execution that ends stores its outcome in the cache.
C9_CancelIsolation == [](C9_StatePart) /\ [][C9_StepPart]_vars

\* X gave up its wait for execution 1; Y was handed its bytes after that,
\* and the cache holds them.
C9_Witness ==
  /\ CancelledWaiter(1) /\ call[1].exec = 1
  /\ call[2].how = "exec" /\ call[2].exec = 1
  /\ call[2].res = [buf |-> <<2>>, err |-> ErrNil]
  /\ cache[[image |-> "a", req |-> 0]].has
  /\ cache[[image |-> "a", req |-> 0]].buf = <<2>>

\* The entry of the cache for an image, and whether it is younger than
\* CacheTTL.
EntryOf(img) == cache[[image |-> img, req |-> 0]]
Young(img) == EntryOf(img).has /\ EntryOf(img).age < CacheTTL

\* In every state: an entry handed to a caller was younger than CacheTTL.
C10_StatePart ==
  \A c \in Callers : call[c].how = "hit" => call[c].age < CacheTTL

\* In every step that enters load: hit, join or start, by the entry found.
C10_StepPart ==
  \A c \in Callers : (call[c].pc = "idle" /\ call'[c].pc # "idle") =>
    LET img == call'[c].image
    IN  /\ (call'[c].how = "hit") <=> Young(img)
        /\ Young(img) => /\ execs' = execs
                         /\ call'[c].res = LoadReturn(EntryOf(img))
                         /\ call'[c].age = EntryOf(img).age
        /\ (Len(execs') = Len(execs) + 1) <=> (~Young(img) /\ InFlight(img) = {})
        /\ (Len(execs') = Len(execs) + 1) =>
              /\ execs'[Len(execs')].image = img
              /\ call'[c].exec = Len(execs')

\* C10 (Spec): a call of load is served from the cache exactly when an entry
\* younger than CacheTTL exists for its image, bytes or error alike, and is
\* then handed that entry without any execution starting; a call starts an
\* execution of the loader chain exactly when no such entry exists and none
\* is in flight for the image (calls one after another never find one in
\* flight); so no entry handed out is as old as CacheTTL.
C10_TTL == [](C10_StatePart) /\ [][C10_StepPart]_vars

\* The chain ran once; a later call was served the entry, one tick old.
C10_Witness ==
  /\ Len(execs) = 1
  /\ \E c \in Callers : call[c].how = "hit" /\ call[c].age = CacheTTL - 1

\* C11 (SpecDo): when app.load returns a non-nil error, Do returns at once:
\* its error is the classified error load returned, its bytes are those load
\* returned, its metadata is nil, and no Processor.Process is invoked.
C11_LoadFailureStops ==
  (do_loaded # <<>> /\ do_loaded[1].err # ErrNil)
    => /\ DoReturned
       /\ do_st.err = do_loaded[1].err
       /\ do_st.err = WrapError(do_st.err)
       /\ do_st.buf = do_loaded[1].buf
       /\ do_st.meta = NilMeta
       /\ do_calls = <<>>

\* The load ended NotFound on a server with two processors configured.
C11_Witness ==
  /\ DoReturned
  /\ do_cfg.processors = 2
  /\ do_loaded # <<>> /\ do_loaded[1].err = ErrNotFound
  /\ do_st.err = ErrNotFound

\* C12 (SpecDo): for a request other than the root path for which Do
\* returned a classified error, the status ServeHTTP writes is that error's
\* code and never the success status; the body is the bytes Do returned
\* when there are any, and the error as JSON otherwise.
C12_ErrorStatus ==
  (http_pc = "done" /\ ~http_req.root /\ IsError(do_st.err))
    => /\ http_resp.status = Code(do_st.err)
       /\ http_resp.status # StatusOK
       /\ IF Len(do_st.buf) > 0
          THEN http_resp.body = [kind |-> "bytes", bytes |-> do_st.buf, json |-> NoJSON]
          ELSE /\ http_resp.body.kind = "json"
               /\ http_resp.body.json = ErrorJSON(do_st.err)

C14_SaveIsolation ==
  sv_pc = "saved" =>
    /\ sv_out.returned => sv_out.res = [buf |-> sv_out.loaded, err |-> ErrNil]
    /\ ~sv_out.returned => ~sv_crashed

\* C15 (SpecLoad): within one execution of the producing function the k-th
\* call goes to loader k, so the loaders are invoked in configured order and
\* each at most once; every call but the latest returned a non-nil error, so
\* no loader is invoked after one that returned nil; and once the function
\* has returned, loader i+1 was invoked exactly when loaders 1..i were all
\* invoked and all returned a non-nil error, Pass or any other.
C15_LoaderOrder ==
  /\ Len(ld_calls) <= ld_cfg.loaders
  /\ \A j \in 1..Len(ld_calls) : ld_calls[j].loader = j
  /\ \A j \in 1..(Len(ld_calls) - 1) : ld_calls[j].err # ErrNil
  /\ ld_pc = "returned" =>
       \A i \in 0..(ld_cfg.loaders - 1) :
         (i + 1 <= Len(ld_calls))
           <=> (\A j \in 1..i : j <= Len(ld_calls) /\ ld_calls[j].err # ErrNil)

\* Loader 1 failed with an I/O error, loader 2 was still invoked and
\* succeeded.
C15_Witness ==
  /\ ld_pc = "returned"
  /\ Len(ld_calls) = 2
  /\ ld_calls[1].loader = 1 /\ ld_calls[1].err = ErrIO
  /\ ld_calls[2].loader = 2 /\ ld_calls[2].err = ErrNil

\* The save goroutines execution e started, in the order it started them.
SavesOf(e) == SelectSeq(saves, LAMBDA s : s.exec = e)

\* In every state: an execution that ended with a nil error has started one
\* save per configured storage, each with the execution's image and bytes;
\* an execution that ended with an error, or is still running, has started
\* none; and every save belongs to an execution.
C16_StatePart ==
  /\ \A i \in 1..Len(saves) : saves[i].exec \in 1..Len(execs)
  /\ \A e \in 1..Len(execs) :
        IF execs[e].state = "done" /\ execs[e].err = ErrNil
        THEN /\ Len(SavesOf(e)) = storages
             /\ \A s \in 1..storages :
                   SavesOf(e)[s] = [exec |-> e, storage |-> s,
                                    image |-> execs[e].image, buf |-> execs[e].buf]
        ELSE SavesOf(e) = <<>>

\* In every step: saves are started only by the step that ends an
\* execution, never by a call served from the cache, by a call that joins
\* an execution in flight, or by a caller being handed an outcome.
C16_StepPart ==
  saves' # saves =>
    /\ call' = call
    /\ \E e \in 1..Len(execs) :
          /\ execs[e].state = "running" /\ execs'[e].state = "done"
          /\ Len(saves') = Len(saves) + (IF execs'[e].err = ErrNil THEN storages ELSE 0)

\* C16 (Spec): each execution of the producing function that ends with a nil
\* error starts exactly one Save per configured storage, with its image and
\* bytes; one that ends with an error starts none; a call served from a live
\* entry, or from an execution in flight, starts none of its own.
C16_SavesOncePerExecution == [](C16_StatePart) /\ [][C16_StepPart]_vars

\* Two storages, two callers of one image: one execution succeeded and
\* started two saves; one caller was handed its outcome, the other was
\* served from the cache; no further save was started.
C16_Witness ==
  /\ storages = 2
  /\ Len(execs) = 1 /\ execs[1].state = "done" /\ execs[1].err = ErrNil
  /\ Len(saves) = 2
  /\ \E c, d \in Callers : call[c].how = "exec" /\ call[d].how = "hit"

\* The entries the producing function has logged, the final one included
\* once it has returned.
LdLogged == IF ld_pc = "returned" THEN ld_out.log ELSE ld_st.log

\* C17 (SpecLoad): load writes no error-level log entry for Pass, for a
\* cancellation or for an exceeded deadline, neither in the loop over the
\* loaders nor for the final error of the chain.
C17_NoHardErrorLog ==
  \A i \in 1..Len(LdLogged) :
    LdLogged[i].level = "error"
      => LdLogged[i].err \notin {ErrPass, ErrCanceled, ErrDeadline}

\* The calls Startup, or Shutdown, has made to the processors, in order.
CallsOf(op) == SelectSeq(lc_calls, LAMBDA c : c.op = op)

\* C18 (SpecLifecycle): Startup, and likewise Shutdown, calls the processors
\* in configured order, each at most once; every call but the latest
\* returned nil, so no processor after a failing one is called; it returns
\* the error of the failing processor, and it returns nil only after every
\* processor was called once and returned nil.
C18_FailFast ==
  \A op \in {"Startup", "Shutdown"} :
    LET cs == CallsOf(op)
    IN  /\ Len(cs) <= lc_n
        /\ \A j \in 1..Len(cs) : cs[j].processor = j
        /\ \A j \in 1..(Len(cs) - 1) : cs[j].err = ErrNil
        /\ lc_out[op].returned =>
              IF cs # <<>> /\ Last(cs).err # ErrNil
              THEN lc_out[op].err = Last(cs).err
              ELSE /\ lc_out[op].err = ErrNil
                   /\ Len(cs) = lc_n
                   /\ \A j \in 1..lc_n : cs[j].err = ErrNil

\* Two processors: Startup succeeded on both; Shutdown failed on the first
\* and never called the second.
C18_Witness ==
  /\ lc_n = 2
  /\ lc_out["Startup"] = [returned |-> TRUE, err |-> ErrNil]
  /\ Len(CallsOf("Startup")) = 2
  /\ lc_out["Shutdown"] = [returned |-> TRUE, err |-> ErrIO]
  /\ Len(CallsOf("Shutdown")) = 1

\* C19 (SpecSave): for every request timeout, zero included, a save
\* goroutine whose Save has returned, with or without an error, has ended
\* normally, and the process never dies of a panic.
C19_TasksEndNormally ==
  /\ ~sv_crashed
  /\ \A s \in DOMAIN sv_tasks :
        sv_tasks[s].result # "none" => sv_tasks[s].state = "ended"

\* C20 (SpecFlag): after a call of Set, if any comma-separated element of
\* the value fails to parse as a CIDR, the call returned the error and the
\* flag holds the list it held before; if every element parses, the call
\* returned nil and the flag holds exactly the parsed networks, in the
\* order of the value, whatever it held before.
C20_AllOrNothing ==
  fl_last.called =>
    LET elems == Split(fl_last.value)
        parsed == [i \in 1..Len(elems) |-> ParseCIDR(elems[i])]
    IN  IF \E i \in 1..Len(elems) : parsed[i].err # ErrNil
        THEN /\ fl_last.err = ErrParse
             /\ fl_list = fl_last.before
        ELSE /\ fl_last.err = ErrNil
             /\ Len(fl_list) = Len(elems)
             /\ \A i \in 1..Len(elems) : fl_list[i] = parsed[i].network

\* A flag holding one network is set to two others: they replace it, masked
\* and in the order given.
C20_Witness ==
  /\ fl_last.called
  /\ fl_last.before = <<[ip |-> 1, bits |-> 2]>>
  /\ fl_last.value = <<[kind |-> "cidr", ip |-> 3, bits |-> 1], Comma,
                       [kind |-> "cidr", ip |-> 1, bits |-> 2]>>
  /\ fl_last.err = ErrNil
  /\ fl_list = <<[ip |-> Mask(3, 1), bits |-> 1], [ip |-> 1, bits |-> 2]>>
  /\ Mask(3, 1) # 3
====
